---- MODULE Spec2Model ----
(***************************************************************************)
(* A model of the decorators of Decorators.ipynb: the memoizing `cache`    *)
(* decorator (alone, and stacked on `count_calls` around the recursive     *)
(* fibonacci), the bounded LRU variant, `singleton`, `count_calls`, the     *)
(* class CountCalls, `repeat`, the class Circle, and `debug` nested with   *)
(* `timer`.                                                                *)
(***************************************************************************)
EXTENDS Integers, Sequences, FiniteSets, TLC

VARIABLES
    cache,       \* wrapper_cache.cache: the dict, a function from keys to results
    stack,       \* the calls of the decorated function whose body is running
    num_calls,   \* wrapper_count_calls.num_calls; the number of invocations of func
    last,        \* the outcome of the wrapper call that completed most recently
    pure,        \* whether the wrapped function is deterministic and total
    decorators,  \* the decorators on fibonacci, outermost first
    computed,    \* how many times the body of fibonacci has run for each num
    instance,    \* wrapper_singleton.instance: 0 for None, or the id of an object
    falsy,       \* whether the objects of the decorated class are false in `not`
    heap,        \* the arguments each object of the decorated class was made with
    returned,    \* what the calls of the decorated class returned, in order
    maxsize,     \* the capacity given to the bounded cache
    entries,     \* the bounded cache: a function from keys to results
    recency,     \* the keys of the bounded cache, least recently used first
    lru_log,     \* the calls of the bounded wrapper: key, and whether it was a hit
    events,      \* what the notebook observes, in order: the lines printed, the
                 \* runs of a function body, and how each call from it ended
    entered,     \* how many times the decorated name has been called
    attrs,       \* the __dict__ of the CountCalls object, without func
    num_times,   \* the num_times that wrapper_repeat closes over
    applied,     \* how repeat was applied: bare, or called with num_times = n
    nesting,     \* the decorators on greet, outermost first
    radius,      \* Circle._radius
    assigned     \* the assignments to Circle.radius and how each ended

cacheVars == <<cache, stack, num_calls, last, pure>>
fibVars == <<decorators, computed>>
singletonVars == <<instance, falsy, heap, returned>>
lruVars == <<maxsize, entries, recency, lru_log>>
repeatVars == <<num_times, applied>>
circleVars == <<radius, assigned>>
decoVars == <<events, entered, attrs, repeatVars, nesting, circleVars>>
vars == <<cacheVars, fibVars, singletonVars, lruVars, decoVars>>

---------------------------------------------------------------------------
(* Python values.  Every value is a record of one shape, so that equality  *)
(* is Python's ==: two ints, two strs are equal when they hold the same    *)
(* data, tuples and lists item by item, and values of two kinds never.     *)

PyInt(n) == [kind |-> "int", n |-> n, s |-> "", items |-> <<>>]
PyStr(s) == [kind |-> "str", n |-> 0, s |-> s, items |-> <<>>]
PyTuple(items) == [kind |-> "tuple", n |-> 0, s |-> "", items |-> items]
PyList(items) == [kind |-> "list", n |-> 0, s |-> "", items |-> items]

\* A hash that looks at the value's own kind only.
Hashable_shallow(v) == v.kind # "list"

\* hash(v): ints and strs hash, a tuple hashes iff all of its items do, a
\* list never does (TypeError: unhashable type).
RECURSIVE Hashable(_)
Hashable(v) ==
    CASE v.kind = "list" -> FALSE
      [] v.kind = "tuple" -> \A i \in 1..Len(v.items) : Hashable(v.items[i])
      [] OTHER -> TRUE

---------------------------------------------------------------------------
(* Calls.  args is the tuple of positional values; kwargs is the dict of   *)
(* keyword arguments in the order of the call (a dict keeps insertion      *)
(* order, and a keyword cannot be given twice).                            *)

MaxInvocations == 2

Names == {"a", "b"}
PosValues == {PyTuple(<<PyStr("a"), PyInt(1)>>), PyList(<<>>)}
KwValues == {PyInt(1), PyList(<<>>)}

ArgLists == {<<>>} \cup {<<v>> : v \in PosValues}
KwArg(k, v) == [name |-> k, value |-> v]
KwLists ==
    {<<>>}
    \cup {<<KwArg(k, v)>> : k \in Names, v \in KwValues}
    \cup {<<KwArg(k1, PyInt(1)), KwArg(k2, PyInt(1))>> :
            <<k1, k2>> \in {q \in Names \X Names : q[1] # q[2]}}

Call(args, kwargs) == [args |-> args, kwargs |-> kwargs]
\* Calls of the decorated name: positional only, keyword only, and one
\* positional argument followed by one keyword.
Calls ==
    {Call(a, <<>>) : a \in ArgLists}
    \cup {Call(<<>>, k) : k \in KwLists}
    \cup {Call(<<v>>, <<KwArg("a", PyInt(1))>>) : v \in PosValues}

\* tuple(kwargs.items()): one (name, value) pair per keyword, in dict order.
KwItems(kwargs) ==
    [i \in 1..Len(kwargs) |-> PyTuple(<<PyStr(kwargs[i].name), kwargs[i].value>>)]

\* A key whose keywords are put in the order of their names.
CacheKey_sorted(args, kwargs) ==
    LET Given(n) == \E i \in 1..Len(kwargs) : kwargs[i].name = n
        names == SelectSeq(<<"a", "b">>, Given)
        At(n) == CHOOSE i \in 1..Len(kwargs) : kwargs[i].name = n
    IN  args \o KwItems([j \in 1..Len(names) |-> kwargs[At(names[j])]])

\* A key built from the keywords alone.
CacheKey_kwargs(args, kwargs) == KwItems(kwargs)

\* cache_key = args + tuple(kwargs.items())
CacheKey(args, kwargs) == args \o KwItems(kwargs)

KeyOf(c) == CacheKey(c.args, c.kwargs)

\* Hashing the key tuple hashes every item of it.
HashableKey(key) == \A i \in 1..Len(key) : Hashable(key[i])

\* A lookup that never finds the key.
CacheHas_never(d, key) == FALSE

\* cache_key not in wrapper_cache.cache (negated)
CacheHas(d, key) == key \in DOMAIN d

\* wrapper_cache.cache[cache_key]
CacheGet(d, key) == d[key]

\* An assignment that rebinds the dict to one holding the new entry alone.
CachePut_only(d, key, value) == [k \in {key} |-> value]

\* wrapper_cache.cache[cache_key] = value
CachePut(d, key, value) ==
    [k \in DOMAIN d \cup {key} |-> IF k = key THEN value ELSE d[k]]

\* wrapper_cache.cache = dict()
EmptyDict == [k \in {} |-> 0]

---------------------------------------------------------------------------
(* The wrapped function.  `cache` is given an arbitrary func; what the     *)
(* model keeps of its result is which call computed it (src) and the part  *)
(* that depends on state outside the arguments (ver).  A deterministic     *)
(* func returns Func(c, 0) every time; any other func may return any       *)
(* version, raise, or call the decorated name again while it runs.         *)

Versions == {0, 1}
Func(c, ver) == [src |-> c, ver |-> ver]

NoCall == Call(<<>>, <<>>)
NoResult == [src |-> NoCall, ver |-> -1]
\* What the caller of a wrapper call gets: a value (hit, miss) or an error,
\* with the number of calls that were running when it was made (0: the
\* notebook made it).
Outcome(kind, c, result, depth) ==
    [kind |-> kind, call |-> c, result |-> result, depth |-> depth]

Frame(c, key) == [call |-> c, cache_key |-> key]
Top == stack[Len(stack)]
Pop == SubSeq(stack, 1, Len(stack) - 1)

\* The other decorated names of the notebook, before any of them is used.
FibIdle == decorators = <<>> /\ computed = <<>>
SingletonIdle == instance = 0 /\ falsy = FALSE /\ heap = <<>> /\ returned = <<>>
LruIdle == maxsize = 0 /\ entries = EmptyDict /\ recency = <<>> /\ lru_log = <<>>
DecoIdle ==
    /\ events = <<>> /\ entered = 0 /\ attrs = EmptyDict
    /\ num_times = 0 /\ applied = <<>>
    /\ nesting = <<>> /\ radius = 0 /\ assigned = <<>>

Init ==
    /\ cache = EmptyDict
    /\ stack = <<>>
    /\ num_calls = 0
    /\ last = Outcome("none", NoCall, NoResult, 0)
    /\ pure \in BOOLEAN
    /\ FibIdle /\ SingletonIdle /\ LruIdle /\ DecoIdle

\* wrapper_cache(*args, **kwargs), up to the call of func: the key is built
\* and looked up; an unhashable key raises TypeError out of the lookup, a
\* key that is present returns its entry, and an absent one calls func.
\* The caller is the notebook (nothing is running) or, for a func that
\* calls the decorated name itself, the running func.
WrapperCache(c) ==
    /\ stack = <<>> \/ ~pure
    /\ LET cache_key == CacheKey(c.args, c.kwargs) IN
         IF ~HashableKey(cache_key)
         THEN /\ last' = Outcome("TypeError", c, NoResult, Len(stack))
              /\ UNCHANGED <<cache, stack, num_calls>>
         ELSE IF CacheHas(cache, cache_key)
         THEN /\ last' = Outcome("hit", c, CacheGet(cache, cache_key), Len(stack))
              /\ UNCHANGED <<cache, stack, num_calls>>
         ELSE /\ num_calls < MaxInvocations
              /\ stack' = Append(stack, Frame(c, cache_key))
              /\ num_calls' = num_calls + 1
              /\ UNCHANGED <<cache, last>>
    /\ UNCHANGED <<pure, fibVars, singletonVars, lruVars, decoVars>>

\* func returns: wrapper_cache stores the value under its cache_key and
\* returns the entry it then reads back.
FuncReturn(ver) ==
    /\ stack # <<>>
    /\ pure => ver = 0
    /\ LET value == Func(Top.call, ver)
           stored == CachePut(cache, Top.cache_key, value) IN
         /\ cache' = stored
         /\ last' = Outcome("miss", Top.call, CacheGet(stored, Top.cache_key),
                            Len(stack) - 1)
    /\ stack' = Pop
    /\ UNCHANGED <<num_calls, pure, fibVars, singletonVars, lruVars, decoVars>>

\* A wrapper that stores a failed call's outcome before the error leaves it.
FuncRaise_stored ==
    /\ stack # <<>>
    /\ ~pure
    /\ last' = Outcome("raise", Top.call, NoResult, Len(stack) - 1)
    /\ cache' = CachePut(cache, Top.cache_key, NoResult)
    /\ stack' = Pop
    /\ UNCHANGED <<num_calls, pure, fibVars, singletonVars, lruVars, decoVars>>

\* func raises: the assignment of line 1160 never happens and the error
\* leaves wrapper_cache as it is.
FuncRaise ==
    /\ stack # <<>>
    /\ ~pure
    /\ last' = Outcome("raise", Top.call, NoResult, Len(stack) - 1)
    /\ stack' = Pop
    /\ UNCHANGED <<cache, num_calls, pure, fibVars, singletonVars, lruVars, decoVars>>

Next ==
    \/ \E c \in Calls : WrapperCache(c)
    \/ \E ver \in Versions : FuncReturn(ver)
    \/ FuncRaise

Spec == Init /\ [][Next]_vars

---------------------------------------------------------------------------
(* fibonacci, decorated by count_calls alone and by cache over count_calls.*)
(* The name fibonacci is bound to the outermost wrapper, so the two calls  *)
(* in the body go through every decorator again.                           *)

FibArg == 10

CountOnly == <<"count_calls">>
CacheOverCount == <<"cache", "count_calls">>

FibCallOf(num) == Call(<<PyInt(num)>>, <<>>)

\* The running body of fibonacci(num): pc is "first" while it evaluates
\* fibonacci(num - 1), "second" while it evaluates fibonacci(num - 2), and
\* "return" when value is what it returns.
FibFrame(num, pc, value) == [num |-> num, pc |-> pc, value |-> value]

\* if num < 2: return num
FibBody(num) ==
    IF num < 2 THEN FibFrame(num, "return", num) ELSE FibFrame(num, "first", 0)

\* The caller's frame once the call it is waiting for has returned v:
\* fibonacci(num - 1) + fibonacci(num - 2), the left operand first.
FibResume(frame, v) ==
    IF frame.pc = "first"
    THEN FibFrame(frame.num, "second", v)
    ELSE FibFrame(frame.num, "return", frame.value + v)

\* The frames after a call made with `below` running has returned v.
FibDeliver(below, v) ==
    IF below = <<>> THEN below
    ELSE [below EXCEPT ![Len(below)] = FibResume(below[Len(below)], v)]

\* The argument of the call the notebook or the running body makes next.
FibNextArgs ==
    IF stack = <<>>
    THEN IF last.kind = "none" THEN 0..FibArg ELSE {}
    ELSE IF Top.pc = "first" THEN {Top.num - 1}
    ELSE IF Top.pc = "second" THEN {Top.num - 2}
    ELSE {}

InitFib ==
    /\ cache = EmptyDict
    /\ stack = <<>>
    /\ num_calls = 0
    /\ last = Outcome("none", NoCall, 0, 0)
    /\ pure = TRUE
    /\ decorators \in {CountOnly, CacheOverCount}
    /\ computed = [n \in 0..FibArg |-> 0]
    /\ SingletonIdle /\ LruIdle /\ DecoIdle

\* fibonacci(num) through its decorators: wrapper_cache looks the key up
\* and returns a stored entry; otherwise wrapper_count_calls counts the
\* call and the body starts.
FibCall(num) ==
    /\ num \in FibNextArgs
    /\ LET cache_key == CacheKey(<<PyInt(num)>>, <<>>) IN
         IF decorators = CacheOverCount /\ CacheHas(cache, cache_key)
         THEN /\ stack' = FibDeliver(stack, CacheGet(cache, cache_key))
              /\ last' = Outcome("hit", FibCallOf(num), CacheGet(cache, cache_key),
                                 Len(stack))
              /\ UNCHANGED <<cache, num_calls, computed>>
         ELSE /\ num_calls' = num_calls + 1
              /\ computed' = [computed EXCEPT ![num] = @ + 1]
              /\ stack' = Append(stack, FibBody(num))
              /\ UNCHANGED <<cache, last>>
    /\ UNCHANGED <<pure, decorators, singletonVars, lruVars, decoVars>>

\* The body returns: wrapper_count_calls passes the value on, wrapper_cache
\* stores it under the key of the call and returns the entry.
FibReturn ==
    /\ stack # <<>>
    /\ Top.pc = "return"
    /\ LET cache_key == CacheKey(<<PyInt(Top.num)>>, <<>>)
           stored == IF decorators = CacheOverCount
                     THEN CachePut(cache, cache_key, Top.value)
                     ELSE cache
           value == IF decorators = CacheOverCount
                    THEN CacheGet(stored, cache_key)
                    ELSE Top.value IN
         /\ cache' = stored
         /\ stack' = FibDeliver(Pop, value)
         /\ last' = Outcome("miss", FibCallOf(Top.num), value, Len(stack) - 1)
    /\ UNCHANGED <<num_calls, computed, pure, decorators, singletonVars, lruVars, decoVars>>

NextFib ==
    \/ \E num \in 0..FibArg : FibCall(num)
    \/ FibReturn

SpecFib == InitFib /\ [][NextFib]_vars

---------------------------------------------------------------------------
(* singleton.  Objects are numbered from 1 in the order they are made and  *)
(* 0 stands for None; heap[i] holds the arguments object i was made with.  *)

MaxSingletonCalls == 4

\* bool(x) as `not` takes it: None is false, and an object is true unless
\* its class defines __bool__ or __len__ to say otherwise.
Truth(obj) == obj # 0 /\ ~falsy

InitSingleton ==
    /\ instance = 0
    /\ falsy \in BOOLEAN
    /\ heap = <<>>
    /\ returned = <<>>
    /\ cache = EmptyDict /\ stack = <<>> /\ num_calls = 0
    /\ last = Outcome("none", NoCall, NoResult, 0) /\ pure = TRUE
    /\ FibIdle /\ LruIdle /\ DecoIdle

\* wrapper_singleton(*args, **kwargs): cls is called when `not instance`
\* holds, and the stored instance is returned.
WrapperSingleton(c) ==
    /\ Len(returned) < MaxSingletonCalls
    /\ LET made == IF ~Truth(instance) THEN Append(heap, c) ELSE heap
           stored == IF ~Truth(instance) THEN Len(made) ELSE instance IN
         /\ heap' = made
         /\ instance' = stored
         /\ returned' = Append(returned, stored)
    /\ UNCHANGED <<falsy, cacheVars, fibVars, lruVars, decoVars>>

NextSingleton == \E c \in {k \in Calls : k.kwargs = <<>>} : WrapperSingleton(c)

SpecSingleton == InitSingleton /\ [][NextSingleton]_vars

---------------------------------------------------------------------------
(* The bounded variant: a cache of at most maxsize entries that evicts the *)
(* least recently used one.  The wrapped function is deterministic and     *)
(* does not call the wrapper; ResultOf stands for its value.               *)

LruMaxsize == 4
MaxLruCalls == 5

LruKeys == {"A", "B", "C", "D", "E"}
ResultOf(key) == <<"f", key>>

\* The recency order with key removed.
Without(order, key) == SelectSeq(order, LAMBDA k : k # key)

\* A hit that leaves the recency order as it was.
LruTouch_kept(order, key) == order

\* A hit makes the key the most recently used one.
LruTouch(order, key) == Append(Without(order, key), key)

\* An eviction that discards the most recently used entry.
LruVictim_newest(order) == order[Len(order)]

\* The entry to evict: the least recently used one.
LruVictim(order) == order[1]

InitLru ==
    /\ maxsize \in 1..LruMaxsize
    /\ entries = EmptyDict
    /\ recency = <<>>
    /\ lru_log = <<>>
    /\ cache = EmptyDict /\ stack = <<>> /\ num_calls = 0
    /\ last = Outcome("none", NoCall, NoResult, 0) /\ pure = TRUE
    /\ FibIdle /\ SingletonIdle /\ DecoIdle

\* invoke(key): a hit returns the stored result and refreshes the key's
\* recency; a miss computes the result, inserts it as the most recent
\* entry and, if the entries now exceed maxsize, evicts the least recently
\* used one.
LruCall(key) ==
    /\ Len(lru_log) < MaxLruCalls
    /\ IF key \in DOMAIN entries
       THEN /\ recency' = LruTouch(recency, key)
            /\ lru_log' = Append(lru_log, [key |-> key, hit |-> TRUE,
                                          result |-> entries[key]])
            /\ UNCHANGED entries
       ELSE LET inserted == CachePut(entries, key, ResultOf(key))
                order == Append(recency, key)
                victim == LruVictim(order) IN
              /\ IF Len(order) > maxsize
                 THEN /\ entries' = [k \in DOMAIN inserted \ {victim} |-> inserted[k]]
                      /\ recency' = Without(order, victim)
                 ELSE /\ entries' = inserted
                      /\ recency' = order
              /\ lru_log' = Append(lru_log, [key |-> key, hit |-> FALSE,
                                            result |-> ResultOf(key)])
    /\ UNCHANGED <<maxsize, cacheVars, fibVars, singletonVars, decoVars>>

NextLru == \E key \in LruKeys : LruCall(key)

SpecLru == InitLru /\ [][NextLru]_vars

---------------------------------------------------------------------------
(* Claims about the `cache` decorator around an arbitrary function.        *)

\* The step returns a value or an error from a miss: the running call ends.
CallEnds == stack # <<>> /\ stack' = Pop

\* Two calls that pass the same positional values and the same keywords
\* with the same values.
SameKeywords(c1, c2) ==
    /\ c1.args = c2.args
    /\ Len(c1.kwargs) = Len(c2.kwargs)
    /\ {c1.kwargs[i] : i \in 1..Len(c1.kwargs)}
         = {c2.kwargs[i] : i \in 1..Len(c2.kwargs)}

\* A positional argument or a keyword value of the call is unhashable.
UnhashableArgument(c) ==
    \/ \E i \in 1..Len(c.args) : ~Hashable(c.args[i])
    \/ \E i \in 1..Len(c.kwargs) : ~Hashable(c.kwargs[i].value)

\* C1: a call of the wrapper with the arguments of the call that returned a
\* value just before it is a hit: it returns that same value and func is
\* not invoked (no call starts, the call counter stays).
C1_SecondCallIsHit ==
    [][(last.kind \in {"hit", "miss"} /\ WrapperCache(last.call))
         => /\ last'.kind = "hit"
            /\ last'.call = last.call
            /\ last'.result = last.result
            /\ num_calls' = num_calls
            /\ stack' = stack
            /\ cache' = cache]_vars

\* C1 witness: one invocation of func, and a call that was served the value
\* computed for its own arguments from the cache.
C1_Witness ==
    /\ last.kind = "hit"
    /\ last.result.src = last.call
    /\ num_calls = 1
    /\ stack = <<>>

\* C2: for a deterministic func, every value the wrapper returns is the
\* value func returns for the arguments of that call.
C2_Transparency ==
    (pure /\ last.kind \in {"hit", "miss"}) => last.result = Func(last.call, 0)

\* C3: a call is never served the result that was stored for a call with
\* other arguments, because calls with different arguments have different
\* keys.
C3_Distinctness ==
    last.kind = "hit" =>
        /\ last.result.src = last.call
        /\ \A c \in Calls :
             (c # last.call /\ HashableKey(KeyOf(c))) => KeyOf(c) # KeyOf(last.call)

\* C5 as claimed: a call whose func raises reports the error, leaves the
\* cache as it was, and the next call with the same arguments invokes func
\* again.
C5_FailureNotCached ==
    [][/\ (CallEnds /\ last'.kind = "raise")
            => (cache' = cache /\ last'.call = Top.call)
       /\ (last.kind = "raise" /\ WrapperCache(last.call))
            => (num_calls' = num_calls + 1 /\ stack' # stack)]_vars

\* C5 amended: a call whose func raises reports the error and leaves the
\* cache as it was; the next call with the same arguments invokes func
\* again unless a call with the same key has stored a result (a call func
\* made itself before it raised), and then it is served that result.
C5_FailureNotCachedAmended ==
    [][/\ (CallEnds /\ last'.kind = "raise")
            => (cache' = cache /\ last'.call = Top.call)
       /\ (last.kind = "raise" /\ WrapperCache(last.call))
            => IF KeyOf(last.call) \in DOMAIN cache
               THEN /\ last'.kind = "hit"
                    /\ last'.result = cache[KeyOf(last.call)]
                    /\ num_calls' = num_calls
               ELSE /\ num_calls' = num_calls + 1
                    /\ stack' # stack]_vars

\* C5 witness: the notebook's call failed, nothing is cached, and the same
\* call made again has invoked func a second time.
C5_Witness ==
    /\ last.kind = "raise"
    /\ last.depth = 0
    /\ Len(stack) = 1
    /\ Top.call = last.call
    /\ num_calls = 2
    /\ DOMAIN cache = {}

\* C7: a call with an unhashable positional argument or keyword value fails
\* with TypeError at once: func is not invoked and the cache is unchanged.
C7_UnhashableArgument ==
    [][\A c \in Calls :
         (UnhashableArgument(c) /\ WrapperCache(c))
            => /\ last'.kind = "TypeError"
               /\ last'.call = c
               /\ cache' = cache
               /\ num_calls' = num_calls
               /\ stack' = stack]_vars

\* C7 witness: a call with an unhashable keyword value has failed after an
\* entry was cached.
C7_Witness ==
    /\ last.kind = "TypeError"
    /\ \E i \in 1..Len(last.call.kwargs) : ~Hashable(last.call.kwargs[i].value)
    /\ num_calls = 1
    /\ DOMAIN cache # {}

\* C8: the same keywords in another order never look up the entry that was
\* computed for this order, and a call is never served from the entry of
\* its keywords in another order.
C8_KeywordOrder ==
    /\ \A k \in DOMAIN cache : \A c \in Calls :
         (c # cache[k].src /\ SameKeywords(c, cache[k].src)) => KeyOf(c) # k
    /\ last.kind = "hit" =>
         ~(last.result.src # last.call /\ SameKeywords(last.result.src, last.call))

\* C8 witness: both orders of the same keywords have been computed and are
\* two entries.
C8_Witness ==
    \E k1, k2 \in DOMAIN cache :
        /\ k1 # k2
        /\ cache[k1].src # cache[k2].src
        /\ SameKeywords(cache[k1].src, cache[k2].src)
        /\ num_calls = 2

\* C9 as claimed: a key becomes present only when a miss for it returns, a
\* present key stays present, and its stored result never changes.
C9_PerKeyStateMachine ==
    [][/\ \A k \in DOMAIN cache : k \in DOMAIN cache' /\ cache'[k] = cache[k]
       /\ \A k \in DOMAIN cache' \ DOMAIN cache :
            /\ CallEnds
            /\ Top.cache_key = k
            /\ last' = Outcome("miss", Top.call, cache'[k], Len(stack) - 1)]_vars

\* C9 amended: a key becomes present only when a miss for it returns, a
\* present key stays present, and its stored result changes only when a
\* miss for the same key that was running when the entry was stored
\* returns; every hit returns the result stored at that time.
C9_PerKeyStateMachineAmended ==
    [][/\ \A k \in DOMAIN cache :
            /\ k \in DOMAIN cache'
            /\ cache'[k] # cache[k] => (CallEnds /\ Top.cache_key = k)
       /\ \A k \in DOMAIN cache' \ DOMAIN cache : CallEnds /\ Top.cache_key = k
       /\ cache' # cache
            => last' = Outcome("miss", Top.call, cache'[Top.cache_key], Len(stack) - 1)
       /\ (last'.kind = "hit" /\ last' # last)
            => (cache' = cache /\ last'.result = cache[KeyOf(last'.call)])]_vars

\* C9 witness: func has called the decorated name with its own arguments and
\* that call has stored its result, while the outer call for the same key
\* is still running and will store its own.
C9_Witness ==
    /\ Len(stack) = 1
    /\ CacheHas(cache, Top.cache_key)
    /\ cache[Top.cache_key].src = Top.call
    /\ last.kind = "miss"
    /\ last.depth = 1

---------------------------------------------------------------------------
(* Claims about the decorated fibonacci.                                   *)

RECURSIVE Fibonacci(_)
Fibonacci(n) == IF n < 2 THEN n ELSE Fibonacci(n - 1) + Fibonacci(n - 2)

\* The calls of the naive recursion: one, plus those of its two calls.
RECURSIVE NaiveCalls(_)
NaiveCalls(n) == IF n < 2 THEN 1 ELSE 1 + NaiveCalls(n - 1) + NaiveCalls(n - 2)

FibDone == stack = <<>> /\ last.kind # "none"
FibAsked == last.call.args[1].n

\* C4: when fibonacci(n) has returned to the notebook, its value is the
\* n-th Fibonacci number; under cache over count_calls the body has run
\* exactly once for each num the recursion reaches (all of 0..n for n >= 2)
\* and not at all for any other, and count_calls alone has counted every
\* call of the naive recursion.  For n = 10: 55, with 11 and 177 calls.
C4_Fibonacci ==
    FibDone =>
        /\ last.result = Fibonacci(FibAsked)
        /\ decorators = CacheOverCount =>
             /\ \A k \in 0..FibArg :
                  computed[k] = IF k = FibAsked \/ (k < FibAsked /\ FibAsked >= 2)
                                THEN 1 ELSE 0
             /\ num_calls = IF FibAsked < 2 THEN 1 ELSE FibAsked + 1
        /\ decorators = CountOnly => num_calls = NaiveCalls(FibAsked)
        /\ FibAsked = 10 =>
             /\ last.result = 55
             /\ num_calls = IF decorators = CacheOverCount THEN 11 ELSE 177

\* C4 witness: the cached fibonacci(10) has returned 55 after 11 calls.
C4_Witness ==
    /\ FibDone
    /\ FibAsked = 10
    /\ decorators = CacheOverCount
    /\ num_calls = 11
    /\ last.result = 55
    /\ \A k \in 0..10 : computed[k] = 1

\* The naive fibonacci(10) has returned 55 after 177 calls.
C4_NaiveReached ==
    /\ FibDone
    /\ FibAsked = 10
    /\ decorators = CountOnly
    /\ num_calls = 177
    /\ last.result = 55

---------------------------------------------------------------------------
(* Claims about the bounded variant and about singleton.                   *)

\* C6: with maxsize = 2 and an empty cache, three calls with distinct keys
\* A, B, C leave exactly B and C cached (A was evicted when C was
\* inserted); a fourth call with A is a miss that computes again, and a
\* fourth call with B or with C is a hit.
C6_Eviction ==
    (/\ maxsize = 2
     /\ Len(lru_log) >= 3
     /\ Cardinality({lru_log[1].key, lru_log[2].key, lru_log[3].key}) = 3)
      => /\ Len(lru_log) = 3 => DOMAIN entries = {lru_log[2].key, lru_log[3].key}
         /\ Len(lru_log) >= 4 =>
              /\ lru_log[4].key = lru_log[1].key => ~lru_log[4].hit
              /\ lru_log[4].key \in {lru_log[2].key, lru_log[3].key}
                   => /\ lru_log[4].hit
                      /\ \E i \in 2..3 : /\ lru_log[i].key = lru_log[4].key
                                         /\ lru_log[i].result = lru_log[4].result

\* C6 witness: A, B, C, then A again, which was computed a second time.
C6_Witness ==
    /\ maxsize = 2
    /\ Len(lru_log) = 4
    /\ <<lru_log[1].key, lru_log[2].key, lru_log[3].key, lru_log[4].key>>
         = <<"A", "B", "C", "A">>
    /\ ~lru_log[4].hit
    /\ DOMAIN entries = {"C", "A"}

\* C10: the decorated class is instantiated at most once, and every call
\* returns that one instance.
C10_Singleton ==
    /\ Len(heap) <= 1
    /\ \A i, j \in 1..Len(returned) : returned[i] = returned[j]

---------------------------------------------------------------------------
(* count_calls around an arbitrary function.  The function may call the    *)
(* decorated name itself, may return and may raise.                        *)

MaxCountCalls == 3

\* One observation: a printed line, the start of a function body, or the
\* end of a call.  what is the text or the kind, n the number in it.
Event(ev, what, n, c) == [ev |-> ev, what |-> what, n |-> n, call |-> c]

\* The calls made in the notebook's counting examples: positional only.
CountedCalls == {k \in Calls : k.kwargs = <<>>}

\* The rest of the notebook idle: the memoized function, fibonacci, the
\* singleton and the bounded cache are not used.
MemoIdle ==
    /\ cache = EmptyDict /\ last = Outcome("none", NoCall, NoResult, 0)
    /\ pure = TRUE /\ FibIdle /\ SingletonIdle /\ LruIdle
memoRest == <<cache, last, pure, fibVars, singletonVars, lruVars>>

RepeatIdle == num_times = 0 /\ applied = <<>>
CircleIdle == radius = 0 /\ assigned = <<>>

\* count_calls(func): the attribute starts at 0.
InitCount ==
    /\ num_calls = 0
    /\ stack = <<>>
    /\ entered = 0
    /\ events = <<>>
    /\ attrs = EmptyDict /\ nesting = <<>>
    /\ RepeatIdle /\ CircleIdle /\ MemoIdle

\* wrapper_count_calls(*args, **kwargs), up to the call of func: the
\* attribute is incremented, the line "Call n of ..." is printed, and the
\* body of func starts.  The caller is the notebook or the running func.
WrapperCountCalls(c) ==
    /\ entered < MaxCountCalls
    /\ num_calls' = num_calls + 1
    /\ events' = events \o <<Event("print", "Call", num_calls', c),
                             Event("body", "func", 0, c)>>
    /\ stack' = Append(stack, c)
    /\ entered' = entered + 1
    /\ UNCHANGED <<attrs, nesting, repeatVars, circleVars, memoRest>>

\* func returns and wrapper_count_calls returns its value.
CountFuncReturn ==
    /\ stack # <<>>
    /\ stack' = Pop
    /\ events' = Append(events, Event("return", "value", 0, Top))
    /\ UNCHANGED <<num_calls, entered, attrs, nesting, repeatVars, circleVars,
                   memoRest>>

\* A raise that takes the count back.
CountFuncRaise_rollback ==
    /\ stack # <<>>
    /\ stack' = Pop
    /\ num_calls' = num_calls - 1
    /\ events' = Append(events, Event("raise", "Exception", 0, Top))
    /\ UNCHANGED <<entered, attrs, nesting, repeatVars, circleVars, memoRest>>

\* func raises: the exception leaves wrapper_count_calls, the attribute
\* keeps its value.
CountFuncRaise ==
    /\ stack # <<>>
    /\ stack' = Pop
    /\ events' = Append(events, Event("raise", "Exception", 0, Top))
    /\ UNCHANGED <<num_calls, entered, attrs, nesting, repeatVars, circleVars,
                   memoRest>>

NextCount ==
    \/ \E c \in CountedCalls : WrapperCountCalls(c)
    \/ CountFuncReturn
    \/ CountFuncRaise

SpecCount == InitCount /\ [][NextCount]_vars

\* The lines "Call n of ..." printed so far, in order.
CallLines == SelectSeq(events, LAMBDA e : e.ev = "print" /\ e.what = "Call")

\* C11: num_calls is the number of times the wrapper has been entered (0
\* before the first call), whatever has returned, raised or is still
\* running; the k-th entry printed call number k, and that line is followed
\* at once by the start of func's body for the same call.
C11_CountCalls ==
    /\ num_calls = entered
    /\ Len(CallLines) = entered
    /\ \A k \in 1..Len(CallLines) : CallLines[k].n = k
    /\ \A i \in 1..Len(events) :
         (events[i].ev = "print")
            => /\ i < Len(events)
               /\ events[i + 1].ev = "body"
               /\ events[i + 1].call = events[i].call

\* C11 witness: three entries, one of them made by the running func, and a
\* call that raised.
C11_Witness ==
    /\ num_calls = 3
    /\ entered = 3
    /\ \E i \in 1..Len(events) : events[i].ev = "raise"
    /\ \E i \in 1..(Len(events) - 1) :
         events[i].ev = "body" /\ events[i + 1].ev = "print"

---------------------------------------------------------------------------
(* The class CountCalls around an arbitrary function.  attrs is the        *)
(* object's __dict__; the function it wraps may carry attributes of its    *)
(* own (a function already decorated with count_calls carries num_calls).  *)

\* The __dict__ of the function given to CountCalls.
FuncDicts == {EmptyDict} \cup {[a \in {"num_calls"} |-> n] : n \in 0..1}

\* CountCalls.__init__: update_wrapper copies the function's __dict__ into
\* the object's, then num_call is assigned 0.
CountCallsInit(func_dict) ==
    [a \in DOMAIN func_dict \cup {"num_call"} |->
        IF a = "num_call" THEN 0 ELSE func_dict[a]]

InitCountCalls ==
    /\ attrs \in {CountCallsInit(fd) : fd \in FuncDicts}
    /\ stack = <<>>
    /\ entered = 0
    /\ events = <<>>
    /\ num_calls = 0 /\ nesting = <<>>
    /\ RepeatIdle /\ CircleIdle /\ MemoIdle

\* CountCalls.__call__(*args, **kwargs), up to the call of self.func:
\* self.num_calls += 1 reads the attribute first and raises AttributeError
\* when the object has none; otherwise the line is printed and the body of
\* func starts.
CountCallsCall(c) ==
    /\ entered < MaxCountCalls
    /\ entered' = entered + 1
    /\ IF "num_calls" \in DOMAIN attrs
       THEN /\ attrs' = [attrs EXCEPT !["num_calls"] = @ + 1]
            /\ events' = events \o <<Event("print", "Call", attrs'["num_calls"], c),
                                     Event("body", "func", 0, c)>>
            /\ stack' = Append(stack, c)
       ELSE /\ events' = Append(events, Event("raise", "AttributeError", 0, c))
            /\ UNCHANGED <<attrs, stack>>
    /\ UNCHANGED <<num_calls, nesting, repeatVars, circleVars, memoRest>>

NextCountCalls ==
    \/ \E c \in CountedCalls : CountCallsCall(c)
    \/ CountFuncReturn
    \/ CountFuncRaise

SpecCountCalls == InitCountCalls /\ [][NextCountCalls]_vars

\* C12: after k calls of a function decorated with CountCalls (k >= 1) the
\* object's counter is k, the k-th call printed call number k, and every
\* call started the body of the function with its own arguments: no call
\* ended in the decorator itself.
C12_CountCallsClass ==
    entered > 0 =>
        /\ "num_calls" \in DOMAIN attrs
        /\ attrs["num_calls"] = entered
        /\ Len(CallLines) = entered
        /\ \A k \in 1..Len(CallLines) : CallLines[k].n = k
        /\ \A i \in 1..Len(events) :
             /\ events[i].what # "AttributeError"
             /\ (events[i].ev = "print")
                  => /\ i < Len(events)
                     /\ events[i + 1].ev = "body"
                     /\ events[i + 1].call = events[i].call

---------------------------------------------------------------------------
(* repeat, applied bare or called with num_times.  Each run of the         *)
(* function's body yields a value of its own (the number of the run), so   *)
(* that the value of one run is told from that of another.                 *)

DefaultTimes == 2
MaxTimes == 3
MaxRepeatCalls == 2

\* decorator_repeat(func): wrapper_repeat, closing over num_times.
DecoratorRepeat_once(nt) == [kind |-> "wrapper_repeat", num_times |-> 1]
DecoratorRepeat(nt) == [kind |-> "wrapper_repeat", num_times |-> nt]

\* repeat(_func=None, *, num_times=2): the decorator itself when no
\* function is given, the decorated function when one is.
Repeat(func, nt) ==
    IF func = "None"
    THEN [kind |-> "decorator_repeat", num_times |-> nt]
    ELSE DecoratorRepeat(nt)

\* The two ways of applying it: `@repeat`, which passes the function as
\* _func and leaves num_times at its default, and `@repeat(num_times=n)`,
\* which passes no function and applies the returned decorator.
Bare == [form |-> "bare", n |-> DefaultTimes]
Keyword(n) == [form |-> "keyword", n |-> n]
Decorate(how) ==
    IF how.form = "bare"
    THEN Repeat("func", DefaultTimes)
    ELSE DecoratorRepeat(Repeat("None", how.n).num_times)

\* The frame of a running wrapper_repeat: the iterations done and value.
RepeatFrame(c, i, value) == [call |-> c, i |-> i, value |-> value]

\* The number of runs of the function's body so far.
Runs == Len(SelectSeq(events, LAMBDA e : e.ev = "body"))

InitRepeat ==
    /\ applied \in {Bare} \cup {Keyword(n) : n \in 0..MaxTimes}
    /\ num_times = Decorate(applied).num_times
    /\ stack = <<>>
    /\ entered = 0
    /\ events = <<>>
    /\ num_calls = 0 /\ attrs = EmptyDict /\ nesting = <<>>
    /\ CircleIdle /\ MemoIdle

\* wrapper_repeat(*args, **kwargs) is called from the notebook.  With
\* range(0) the loop body never runs and `return value` reads a local that
\* was never bound.
WrapperRepeat(c) ==
    /\ stack = <<>>
    /\ entered < MaxRepeatCalls
    /\ entered' = entered + 1
    /\ IF num_times = 0
       THEN /\ events' = Append(events, Event("raise", "UnboundLocalError", 0, c))
            /\ UNCHANGED stack
       ELSE /\ stack' = <<RepeatFrame(c, 0, 0)>>
            /\ UNCHANGED events
    /\ UNCHANGED <<num_calls, attrs, nesting, repeatVars, circleVars, memoRest>>

\* One iteration: value = func(*args, **kwargs), func returning.
RepeatInvoke ==
    /\ stack # <<>>
    /\ Top.i < num_times
    /\ events' = Append(events, Event("body", "func", Runs + 1, Top.call))
    /\ stack' = <<RepeatFrame(Top.call, Top.i + 1, Runs + 1)>>
    /\ UNCHANGED <<num_calls, entered, attrs, nesting, repeatVars, circleVars,
                   memoRest>>

\* One iteration in which func raises: the exception leaves the loop and
\* wrapper_repeat.
RepeatRaise ==
    /\ stack # <<>>
    /\ Top.i < num_times
    /\ events' = events \o <<Event("body", "func", Runs + 1, Top.call),
                             Event("raise", "Exception", 0, Top.call)>>
    /\ stack' = <<>>
    /\ UNCHANGED <<num_calls, entered, attrs, nesting, repeatVars, circleVars,
                   memoRest>>

\* The loop is over: return value.
RepeatReturn ==
    /\ stack # <<>>
    /\ Top.i >= num_times
    /\ events' = Append(events, Event("return", "value", Top.value, Top.call))
    /\ stack' = <<>>
    /\ UNCHANGED <<num_calls, entered, attrs, nesting, repeatVars, circleVars,
                   memoRest>>

NextRepeat ==
    \/ \E c \in CountedCalls : WrapperRepeat(c)
    \/ RepeatInvoke
    \/ RepeatRaise
    \/ RepeatReturn

SpecRepeat == InitRepeat /\ [][NextRepeat]_vars

\* The number of invocations the way of applying repeat asks for.
Asked == IF applied.form = "bare" THEN 2 ELSE applied.n

\* C13: every call of the wrapper that returns has run the function
\* exactly 2 times under bare @repeat and exactly n times under
\* @repeat(num_times=n), n >= 1, each time with the caller's arguments, and
\* returns the value of the last of these runs.
C13_Repeat ==
    \A j \in 1..Len(events) :
        (events[j].ev = "return") =>
            /\ Asked >= 1
            /\ j > Asked
            /\ \A i \in (j - Asked)..(j - 1) :
                 events[i].ev = "body" /\ events[i].call = events[j].call
            /\ (j - Asked > 1) => events[j - Asked - 1].ev # "body"
            /\ events[j].n = events[j - 1].n

\* C13 witness: under bare @repeat, a second call has returned the value of
\* its second run after both ran with its arguments.
C13_Witness ==
    /\ applied.form = "bare"
    /\ Len(events) = 6
    /\ events[6].ev = "return"
    /\ events[6].n = 4
    /\ events[4].call = events[6].call
    /\ events[5].call = events[6].call

\* Under @repeat(num_times=3) a call has returned after three runs.
C13_KeywordReached ==
    /\ applied = Keyword(3)
    /\ Len(events) = 4
    /\ events[4].ev = "return"
    /\ events[4].n = 3

---------------------------------------------------------------------------
(* The class Circle: one object, made by the constructor or by the         *)
(* factory unit_circle, and then assigned to through the property radius.  *)

RadiusRange == 2
MaxAssignments == 3

\* The numbers given to the constructor and assigned to .radius.
RadiusValues == (0 - RadiusRange)..RadiusRange

\* Circle.__init__(self, radius): self._radius = radius.
CircleInit(r) == r

\* Circle.unit_circle(): cls(1).
UnitCircle == CircleInit(1)

InitCircle ==
    /\ radius \in {CircleInit(r) : r \in RadiusValues} \cup {UnitCircle}
    /\ assigned = <<>>
    /\ stack = <<>> /\ num_calls = 0
    /\ events = <<>> /\ entered = 0 /\ attrs = EmptyDict /\ nesting = <<>>
    /\ RepeatIdle /\ MemoIdle

\* The setter of radius: a value >= 0 is stored, any other raises
\* ValueError.
SetRadius(value) ==
    /\ Len(assigned) < MaxAssignments
    /\ IF value >= 0
       THEN /\ radius' = value
            /\ assigned' = Append(assigned, [value |-> value, outcome |-> "stored"])
       ELSE /\ radius' = radius
            /\ assigned' = Append(assigned, [value |-> value, outcome |-> "ValueError"])
    /\ UNCHANGED <<stack, num_calls, events, entered, attrs, nesting, repeatVars,
                   memoRest>>

NextCircle == \E value \in RadiusValues : SetRadius(value)

SpecCircle == InitCircle /\ [][NextCircle]_vars

\* C14: the radius of a Circle is never negative, from its creation on, and
\* an assignment of a negative value raises ValueError and leaves the
\* stored radius as it was.
C14_RadiusNeverNegative ==
    /\ [](radius >= 0)
    /\ [][\A value \in RadiusValues :
            (value < 0 /\ SetRadius(value))
               => /\ radius' = radius
                  /\ assigned'[Len(assigned')].outcome = "ValueError"]_vars

---------------------------------------------------------------------------
(* Claims about the bounded cache, stated from the calls made so far.      *)

\* The position in the calls so far of the last call, hit or miss, with
\* this key; 0 if there was none.
LastAccess(key) ==
    LET at == {i \in 1..Len(lru_log) : lru_log[i].key = key} IN
      IF at = {} THEN 0 ELSE CHOOSE i \in at : \A j \in at : j <= i

\* C15: the cache never holds more than maxsize entries and holds the key
\* of the last call; the recency order is the order of the keys' last
\* accesses, hits and insertions alike; and
\* entries leave the cache only one at a time, on the insertion of a new
\* key into a full cache, the one leaving being the entry whose last access
\* is older than that of every other entry.
C15_LruInvariants ==
    /\ [](/\ Cardinality(DOMAIN entries) <= maxsize
          /\ lru_log # <<>> => lru_log[Len(lru_log)].key \in DOMAIN entries
          /\ Len(recency) = Cardinality(DOMAIN entries)
          /\ \A i \in 1..Len(recency) : recency[i] \in DOMAIN entries
          /\ \A i, j \in 1..Len(recency) :
               i < j => LastAccess(recency[i]) < LastAccess(recency[j]))
    /\ [][\A k \in DOMAIN entries \ DOMAIN entries' :
            /\ DOMAIN entries \ DOMAIN entries' = {k}
            /\ Cardinality(DOMAIN entries) = maxsize
            /\ ~lru_log'[Len(lru_log')].hit
            /\ lru_log'[Len(lru_log')].key \in DOMAIN entries' \ DOMAIN entries
            /\ \A other \in DOMAIN entries \ {k} :
                 LastAccess(k) < LastAccess(other)]_vars

\* C15 witness: with maxsize = 2, A and B were inserted, A was hit, and the
\* insertion of C evicted B: A, hit after the later-inserted B, survives.
C15_Witness ==
    /\ maxsize = 2
    /\ Len(lru_log) = 4
    /\ lru_log[1].key = "A" /\ lru_log[2].key = "B"
    /\ lru_log[3].key = "A" /\ lru_log[3].hit
    /\ lru_log[4].key = "C"
    /\ DOMAIN entries = {"A", "C"}

---------------------------------------------------------------------------
(* greet under debug and timer, in either order.  The stack holds one      *)
(* frame for each wrapper that is running and one for the body of greet.   *)

MaxNestCalls == 2

\* `@debug` above `@timer`, and the two the other way round.
DebugOverTimer == <<"debug", "timer">>
TimerOverDebug == <<"timer", "debug">>

\* What a wrapper prints before it calls func: debug prints the signature,
\* timer only reads the clock.
EntryLines(deco, c) ==
    IF deco = "debug" THEN <<Event("print", "Calling", 0, c)>> ELSE <<>>

\* A wrapper that prints nothing after func has returned.
ExitLines_silent(deco, value, c) == <<>>

\* What a wrapper prints after func has returned: debug prints the value
\* returned, timer the run time.
ExitLines(deco, value, c) ==
    IF deco = "debug"
    THEN <<Event("print", "returned", value, c)>>
    ELSE <<Event("print", "Finished", 0, c)>>

\* A frame: the layer (1 is the outermost wrapper, Len(nesting) + 1 the
\* body of greet), where it is, and the value func gave back to it.
NestFrame(layer, c, pc, value) ==
    [layer |-> layer, call |-> c, pc |-> pc, value |-> value]

\* The stack with the frame below the top resumed with value.
Resume(value) ==
    LET below == stack[Len(stack) - 1] IN
      SubSeq(stack, 1, Len(stack) - 2)
        \o <<NestFrame(below.layer, below.call, "back", value)>>

InitNest ==
    /\ nesting \in {DebugOverTimer, TimerOverDebug}
    /\ stack = <<>>
    /\ entered = 0
    /\ events = <<>>
    /\ num_calls = 0 /\ attrs = EmptyDict
    /\ RepeatIdle /\ CircleIdle /\ MemoIdle

\* The notebook calls greet: the outermost wrapper starts.
NestCall(c) ==
    /\ stack = <<>>
    /\ entered < MaxNestCalls
    /\ entered' = entered + 1
    /\ events' = events \o EntryLines(nesting[1], c)
    /\ stack' = <<NestFrame(1, c, "call", 0)>>
    /\ UNCHANGED <<num_calls, attrs, nesting, repeatVars, circleVars, memoRest>>

\* value = func(*args, **kwargs) in a wrapper: func is the next wrapper,
\* or, in the innermost one, greet itself, whose body starts.
NestEnter ==
    /\ stack # <<>>
    /\ Top.pc = "call"
    /\ IF Top.layer < Len(nesting)
       THEN /\ events' = events \o EntryLines(nesting[Top.layer + 1], Top.call)
            /\ stack' = Append(stack, NestFrame(Top.layer + 1, Top.call, "call", 0))
       ELSE /\ events' = Append(events, Event("body", "greet", Runs + 1, Top.call))
            /\ stack' = Append(stack, NestFrame(Top.layer + 1, Top.call, "run", Runs + 1))
    /\ UNCHANGED <<num_calls, entered, attrs, nesting, repeatVars, circleVars,
                   memoRest>>

\* The body of the function returns its value to the innermost wrapper.
NestFuncReturn ==
    /\ stack # <<>>
    /\ Top.pc = "run"
    /\ stack' = Resume(Top.value)
    /\ UNCHANGED <<events, num_calls, entered, attrs, nesting, repeatVars,
                   circleVars, memoRest>>

\* The body of the function raises: neither wrapper catches, so the
\* exception reaches the notebook and nothing more is printed.
NestFuncRaise ==
    /\ stack # <<>>
    /\ Top.pc = "run"
    /\ stack' = <<>>
    /\ events' = Append(events, Event("raise", "Exception", 0, Top.call))
    /\ UNCHANGED <<num_calls, entered, attrs, nesting, repeatVars, circleVars,
                   memoRest>>

\* A wrapper whose func has returned prints its line and returns the
\* value, to the wrapper around it or to the notebook.
NestReturn ==
    /\ stack # <<>>
    /\ Top.pc = "back"
    /\ LET lines == ExitLines(nesting[Top.layer], Top.value, Top.call) IN
         IF Len(stack) = 1
         THEN /\ events' = events \o lines
                             \o <<Event("return", "value", Top.value, Top.call)>>
              /\ stack' = <<>>
         ELSE /\ events' = events \o lines
              /\ stack' = Resume(Top.value)
    /\ UNCHANGED <<num_calls, entered, attrs, nesting, repeatVars, circleVars,
                   memoRest>>

NextNest ==
    \/ \E c \in CountedCalls : NestCall(c)
    \/ NestEnter
    \/ NestFuncReturn
    \/ NestFuncRaise
    \/ NestReturn

SpecNest == InitNest /\ [][NextNest]_vars

\* The kinds of the four observations before position j.
Before(j) == [i \in 1..4 |-> IF events[j - 5 + i].ev = "print"
                             THEN events[j - 5 + i].what
                             ELSE events[j - 5 + i].ev]

\* C16: every call of greet that returns was observed as four events for
\* that call and returns the value of the body; under @debug above @timer
\* they are 'Calling', the body, 'Finished', 'returned', and with the
\* decorators the other way round 'Finished' comes after 'returned'.  The
\* 'returned' line shows the value of the body.
C16_NestingOrder ==
    \A j \in 1..Len(events) :
        (events[j].ev = "return") =>
            /\ j >= 5
            /\ \A i \in (j - 4)..(j - 1) : events[i].call = events[j].call
            /\ Before(j) = IF nesting = <<"debug", "timer">>
                           THEN <<"Calling", "body", "Finished", "returned">>
                           ELSE <<"Calling", "body", "returned", "Finished">>
            /\ events[j].n = events[j - 3].n
            /\ \A i \in (j - 2)..(j - 1) :
                 events[i].what = "returned" => events[i].n = events[j - 3].n

\* C16 witness: under @debug above @timer a second call of greet has
\* returned the value of its own run of the body.
C16_Witness ==
    /\ nesting = <<"debug", "timer">>
    /\ Len(events) = 10
    /\ events[10].ev = "return"
    /\ events[10].n = 2
    /\ events[8].what = "Finished"
    /\ events[9].what = "returned"

\* With @timer above @debug a call has returned, 'Finished' printed last.
C16_ReversedReached ==
    /\ nesting = <<"timer", "debug">>
    /\ Len(events) = 5
    /\ events[5].ev = "return"
    /\ events[3].what = "returned"
    /\ events[4].what = "Finished"

====
